---------------------------- MODULE Spec2Model ----------------------------
(***************************************************************************)
(* One WindsurfMCPClient object (src/windsurf_client.py) talking over one  *)
(* WebSocket to the /ws endpoint of the MCP server (src/main.py), which    *)
(* dispatches to WindsurfIntegration (src/windsurf_integration.py).        *)
(*                                                                         *)
(* asyncio is cooperative: every action below is one run of a coroutine    *)
(* between two suspension points (an await that really yields).            *)
(* asyncio.wait_for is modelled as CPython <= 3.11 implements it: when the *)
(* timer fires and the awaited future is still pending the future is       *)
(* cancelled, and TimeoutError reaches the caller in a later loop          *)
(* iteration; when the future is already done its result is returned.      *)
(* The websocket is the legacy websockets protocol object the code is      *)
(* written against (it has a .closed attribute; recv() hands out queued    *)
(* messages before it raises ConnectionClosed).                            *)
(***************************************************************************)
EXTENDS Integers, Sequences, FiniteSets, TLC

(* ------------------------------ bounds -------------------------------- *)
\* number of call_tool invocations made on the client object
MaxCalls == 2
\* number of frames a non-conforming peer puts on the client's side
MaxStray == 1
\* number of frames written to the server by something else than call_tool
MaxRaw == 2
\* number of call_tool invocations when the peer sends frames of its own
MaxPeerCalls == 1
\* number of call_tool invocations under the fair scheduler
MaxLiveCalls == 1
\* number of tool registrations (register_tool calls and decorated functions)
MaxRegs == 2
\* number of connect() calls made on the client object after it was closed
MaxReconnects == 1

\* number of frames the peer of execute_tool_from_windsurf sends
MaxShotFrames == 3

\* the request id drawn by execute_tool_from_windsurf (uuid4, line 268)
ShotId == 7

\* "timeout = 30" (line 286) and wait_for(..., timeout=5.0) (line 294), seconds
ShotTimeout == 30
RecvTimeout == 5

\* the call_tool invocations (MaxCalls is the largest of the call bounds)
Calls == 1..MaxCalls

(* ----------------------------- constants ------------------------------ *)
\* dict.get("request_id") of a frame that has no request_id: None
NoneId == 0
\* first request id used by frames that no call_tool of this client object wrote
ForeignId == 100

\* tools registered with the integration (WindsurfIntegration.register_tool
\* accepts any handler): "echo", whose handler returns its parameters, the
\* web_request tool of tools.py, and "raise_empty", whose handler raises an
\* exception that has no message (str(e) = "")
RegisteredTools == {"echo", "web_request", "raise_empty"}
\* the (tool_name, parameters) pairs call_tool is invoked with
CallInputs == {<<"echo", "p1">>, <<"echo", "p2">>, <<"web_request", "p2">>, <<"missing", "p1">>}

(* ----------------------------- variables ------------------------------ *)
VARIABLES
    connected,          \* WindsurfMCPClient.connected
    websocket,          \* WindsurfMCPClient.websocket is not None
    tools,              \* WindsurfMCPClient.tools (names of the cached advertisement)
    request_callbacks,  \* WindsurfMCPClient.request_callbacks: request id -> call
    conn_pc,            \* position of connect()
    disc_pc,            \* position of disconnect()
    listener_pc,        \* position of the _message_listener task
    listener_exc,       \* exception that ended the listener ("none" if none)
    dropped,            \* the tool_response frames the listener read and matched with no entry
    call_pc,            \* position of each call_tool invocation
    call_args,          \* tool_name and parameters of each invocation that got past the checks
    call_rid,           \* request_id of each invocation (NoneId before it is generated)
    future,             \* response_future of each invocation
    outcome,            \* what call_tool returned or raised to its caller
    next_id,            \* uuid4 source: ids are never repeated
    chan,               \* state of the WebSocket connection
    to_server,          \* frames written by the client side, not yet read by the server
    to_client,          \* frames written by the server side, not yet read by the client
    strays,             \* number of stray frames put on the client's side so far
    raws,               \* number of raw frames put on the server's side so far
    active_connections, \* main.active_connections (keys)
    srv_pc,             \* position of websocket_endpoint
    srv_cur,            \* the tool_request whose handler is executing
    srv_read,           \* request ids of the tool_requests read, in order
    srv_sent,           \* frames the endpoint has sent, in order
    srv_completed,      \* request ids whose invocation completed on an open session
    srv_discarded,      \* number of frames the endpoint discarded as undecodable
    reconnects,         \* number of connect() calls made on the client object after it was closed
    handled,            \* the last WindsurfIntegration.handle_request call: request and response
    integration_tools,  \* WindsurfIntegration.tools of an integration object being populated
    reg_log,            \* the register_tool calls made on that object, in order
    tool_registry,      \* tools.tool_registry
    module_globals,     \* globals() of the tools module: function name -> function
    envelope,           \* the last WindsurfRequest encoded or decoded: object, dict, result
    old_listener,       \* the _message_listener task of the connection connect() replaced
    shot                \* the execute_tool_from_windsurf invocation: position, request, return value

clientVars == <<connected, websocket, tools, request_callbacks, conn_pc, disc_pc,
                listener_pc, listener_exc, dropped>>
callVars   == <<call_pc, call_args, call_rid, future, outcome, next_id>>
chanVars   == <<chan, to_server, to_client, strays, raws>>
serverVars == <<active_connections, srv_pc, srv_cur, srv_read, srv_sent, srv_completed,
                srv_discarded>>
registryVars == <<integration_tools, reg_log, tool_registry, module_globals>>
sideVars == <<envelope, old_listener, shot>>
apiVars == <<reconnects, handled, registryVars, sideVars>>
vars == <<clientVars, callVars, chanVars, serverVars, apiVars>>

(* ------------------------------ frames -------------------------------- *)
NoArgs == [tool_name |-> "", parameters |-> ""]

\* {"type": "tool_request", "data": {request_id, tool_name, parameters}}
RequestFrame(rid, tool, params) ==
    [type |-> "tool_request", request_id |-> rid, tool_name |-> tool, parameters |-> params]

\* a binary WebSocket message
BinaryFrame == [type |-> "binary", request_id |-> NoneId, tool_name |-> "", parameters |-> ""]

\* a frame that json.loads rejects
MalformedRequest == [type |-> "malformed", request_id |-> NoneId, tool_name |-> "", parameters |-> ""]

\* {"type": "tools_list", "data": {"tools": [...]}}
ToolsListFrame == [type |-> "tools_list", request_id |-> NoneId, key |-> "none", val |-> ""]

\* {"type": "tool_response", "data": {request_id, result}} or {request_id, error}
ResponseFrame(rid, key, val) ==
    [type |-> "tool_response", request_id |-> rid, key |-> key, val |-> val]

MalformedResponse == [type |-> "malformed", request_id |-> NoneId, key |-> "none", val |-> ""]

(* --------------------------- tool handlers ---------------------------- *)
\* TRUE when the handler of a registered tool raises on these parameters:
\* web_request_handler calls .upper() on params["method"] outside its try
\* block, "p2" stands for parameters whose method is not a string
HandlerRaises(tool, params) ==
    (tool = "web_request" /\ params = "p2") \/ tool = "raise_empty"

\* str(e) of the exception the handler raises
HandlerMessage(tool, params) ==
    IF tool = "raise_empty" THEN "" ELSE "AttributeError"

\* the value a registered tool's handler returns: a function of the tool and
\* of the parameters it was given
HandlerResult(tool, params) ==
    IF tool = "echo" THEN params ELSE tool \o ":" \o params

\* an execute_tool that calls the handler without looking the tool up
ExecuteToolNoLookup(registry, name, params) ==
    IF HandlerRaises(name, params)
    THEN [raised |-> TRUE, val |-> HandlerMessage(name, params)]
    ELSE [raised |-> FALSE, val |-> HandlerResult(name, params)]

\* WindsurfIntegration.execute_tool: [raised, val]
ExecuteTool(registry, name, params) ==
    IF name \notin registry
    THEN [raised |-> TRUE, val |-> "Tool not found"]
    ELSE IF HandlerRaises(name, params)
         THEN [raised |-> TRUE, val |-> HandlerMessage(name, params)]
         ELSE [raised |-> FALSE, val |-> HandlerResult(name, params)]


(* ---------------- WindsurfRequest / WindsurfResponse ------------------ *)
\* Python's None
None == "<None>"

\* bool(x) of a string or None
Truthy(x) == x # None /\ x # ""

\* WindsurfRequest(tool_name, parameters, request_id)
WindsurfRequest(tool, params, rid) ==
    [tool_name |-> tool, parameters |-> params, request_id |-> rid]

\* WindsurfResponse(request_id, result, error)
WindsurfResponse(rid, result, error) ==
    [request_id |-> rid, result |-> result, error |-> error]

\* WindsurfResponse.status
Status(resp) == IF Truthy(resp.error) THEN "error" ELSE "success"

\* a to_dict that always writes the result key
ToDictKeysBoth(resp) ==
    {"request_id", "status", "result"} \cup (IF Truthy(resp.error) THEN {"error"} ELSE {})

\* the keys of WindsurfResponse.to_dict()
ToDictKeys(resp) ==
    {"request_id", "status"} \cup (IF Truthy(resp.error) THEN {"error"} ELSE {"result"})

\* WindsurfIntegration.handle_request
HandleRequest(registry, req) ==
    IF ~Truthy(req.tool_name)
    THEN WindsurfResponse(req.request_id, None, "No tool specified")
    ELSE LET r == ExecuteTool(registry, req.tool_name, req.parameters) IN
         IF r.raised
         THEN WindsurfResponse(req.request_id, None, r.val)
         ELSE WindsurfResponse(req.request_id, r.val, None)

\* the requests handle_request is called with
Requests ==
    {WindsurfRequest(t, q, "r1") :
        t \in RegisteredTools \cup {"", "missing"}, q \in {"p1", "p2"}}

\* execute_tool_from_windsurf has not been called: no connection, nothing
\* received, sent or returned
NotShot ==
    [pc |-> "idle", tool_name |-> "", parameters |-> "", request_id |-> NoneId,
     conn |-> "none", inbox |-> <<>>, frames |-> 0, sent |-> <<>>, elapsed |-> 0,
     ret |-> [kind |-> "none", val |-> ""]]

\* no handle_request call has been made
NotHandled ==
    [called |-> FALSE, request |-> WindsurfRequest("", "", ""),
     response |-> WindsurfResponse("", None, None)]

\* the message sent for a request without tool_name (main.py line 146)
NoToolSpecified == "No tool specified"

(* ------------- WindsurfRequest.to_dict / from_dict -------------------- *)
\* a dict is the set of its items; this is {} 
EmptyDict == {}

\* key in d
HasKey(d, k) == \E item \in d : item[1] = k

\* a from_dict whose lookups never find their key
DictGetMissing(d, k, default) == default

\* d.get(k, default)
DictGet(d, k, default) ==
    IF HasKey(d, k) THEN (CHOOSE item \in d : item[1] = k)[2] ELSE default

\* WindsurfRequest.to_dict
RequestToDict(r) ==
    {<<"tool_name", r.tool_name>>, <<"parameters", r.parameters>>,
     <<"request_id", r.request_id>>}

\* WindsurfRequest.from_dict; "{}" is the empty parameter bundle
FromDict(d) ==
    WindsurfRequest(DictGet(d, "tool_name", ""), DictGet(d, "parameters", "{}"),
                    DictGet(d, "request_id", ""))

\* the tool names, parameter bundles (empty, flat, nested) and request ids of
\* the envelopes that are encoded
EnvelopeTools == {"", "echo", "missing", "web_request", "file_search"}
EnvelopeBundles == {"{}", "{a:1}", "{a:1,b:[]}", "{a:{}}", "{a:{b:{c:1}}}"}
EnvelopeIds == {"", "r1", "r2", "r3"}
Envelopes ==
    {WindsurfRequest(t, q, i) : t \in EnvelopeTools, q \in EnvelopeBundles, i \in EnvelopeIds}

\* the dicts that are decoded without having been encoded by to_dict: any
\* of the three keys may be missing
PartialDicts ==
    {d \in SUBSET RequestToDict(WindsurfRequest("echo", "{a:{}}", "r1")) : d # RequestToDict(WindsurfRequest("echo", "{a:{}}", "r1"))}

\* nothing has been encoded or decoded
NoEnvelope ==
    [op |-> "none", request |-> WindsurfRequest("", "{}", ""), encoded |-> EmptyDict,
     decoded |-> WindsurfRequest("", "{}", "")]

(* ------------------------------- helpers ------------------------------- *)
\* client_id of the endpoint invocation that serves the client's current
\* connection (uuid4, main.py line 114): one per connection
SessionId == 1 + reconnects

\* dict without key k (dict.pop(k) / dict.pop(k, None))
Pop(table, k) == [x \in (DOMAIN table) \ {k} |-> table[x]]

\* a registration that has not happened yet when the frame is sent
PutDeferred(table, k, v) == table

\* dict with table[k] = v
Put(table, k, v) == [x \in (DOMAIN table) \cup {k} |-> IF x = k THEN v ELSE table[x]]

PendingFuture == [state |-> "pending", val |-> ""]
NoOutcome == [kind |-> "none", val |-> ""]

(* -------------------------------- Init -------------------------------- *)
Init ==
    /\ connected = FALSE
    /\ websocket = FALSE
    /\ tools = {}
    /\ request_callbacks = <<>>
    /\ conn_pc = "init"
    /\ disc_pc = "idle"
    /\ listener_pc = "none"
    /\ listener_exc = "none"
    /\ dropped = {}
    /\ call_pc = [c \in Calls |-> "idle"]
    /\ call_args = [c \in Calls |-> NoArgs]
    /\ call_rid = [c \in Calls |-> NoneId]
    /\ future = [c \in Calls |-> PendingFuture]
    /\ outcome = [c \in Calls |-> NoOutcome]
    /\ next_id = 1
    /\ chan = "none"
    /\ to_server = <<>>
    /\ to_client = <<>>
    /\ strays = 0
    /\ raws = 0
    /\ active_connections = {}
    /\ srv_pc = "idle"
    /\ srv_cur = RequestFrame(NoneId, "", "")
    /\ srv_read = <<>>
    /\ srv_sent = <<>>
    /\ srv_completed = {}
    /\ srv_discarded = 0
    /\ reconnects = 0
    /\ handled = NotHandled
    /\ integration_tools = <<>>
    /\ reg_log = <<>>
    /\ tool_registry = <<>>
    /\ module_globals = <<>>
    /\ envelope = NoEnvelope
    /\ old_listener = "none"
    /\ shot = NotShot

(* ------------------- WindsurfMCPClient.connect ------------------------ *)
\* websockets.connect succeeds; on the server websocket.accept() returns and
\* the endpoint stores the session in active_connections
ClientConnect ==
    /\ conn_pc = "init"
    /\ websocket' = TRUE
    /\ chan' = "open"
    /\ conn_pc' = "await_tools"
    /\ active_connections' = active_connections \cup {SessionId}
    /\ srv_pc' = "advertise"
    /\ UNCHANGED <<connected, tools, request_callbacks, disc_pc, listener_pc, listener_exc, dropped>>
    /\ UNCHANGED <<callVars, to_server, to_client, strays, raws>>
    /\ UNCHANGED <<srv_cur, srv_read, srv_sent, srv_completed, srv_discarded>>
    /\ UNCHANGED apiVars

\* websockets.connect raises: connect() logs and returns False
ClientConnectFail ==
    /\ conn_pc = "init"
    /\ conn_pc' = "failed"
    /\ UNCHANGED <<connected, websocket, tools, request_callbacks, disc_pc, listener_pc, listener_exc, dropped>>
    /\ UNCHANGED <<callVars, chanVars, serverVars>>
    /\ UNCHANGED apiVars

\* connect() resumes from "await self.websocket.recv()" with the first frame
ClientRecvTools ==
    /\ conn_pc = "await_tools"
    /\ \/ /\ to_client # <<>>
          /\ to_client' = Tail(to_client)
          /\ LET first == Head(to_client) IN
             IF first.type = "tools_list"
             THEN /\ tools' = RegisteredTools
                  /\ listener_pc' = "top"
                  /\ connected' = TRUE
                  /\ conn_pc' = "done"
                  /\ UNCHANGED <<disc_pc, chan>>
             ELSE IF first.type = "malformed"
             THEN \* json.loads raises, caught by "except Exception": return False
                  /\ conn_pc' = "failed"
                  /\ UNCHANGED <<tools, listener_pc, connected, disc_pc, chan>>
             ELSE \* wrong first frame: await self.disconnect(); return False
                  /\ conn_pc' = "failed"
                  /\ disc_pc' = "closing"
                  /\ chan' = IF chan = "open" THEN "closing" ELSE chan
                  /\ UNCHANGED <<tools, listener_pc, connected>>
       \/ \* the connection is lost before any frame arrived: recv() raises
          /\ to_client = <<>>
          /\ chan # "open"
          /\ conn_pc' = "failed"
          /\ UNCHANGED <<tools, listener_pc, connected, disc_pc, chan, to_client>>
    /\ UNCHANGED <<websocket, request_callbacks, listener_exc, dropped>>
    /\ UNCHANGED <<callVars, to_server, strays, raws, serverVars>>
    /\ UNCHANGED apiVars

\* connect() is called again on a client object that was connected before
\* and has been closed (disconnect() returned, or the connection was lost and
\* the listener task has ended): lines 46-48 open a new connection and store
\* it in self.websocket; nothing of the object is reset. The server accepts it
\* in a new invocation of websocket_endpoint (main.py lines 111-117).
ClientReconnect ==
    /\ reconnects < MaxReconnects
    /\ conn_pc \in {"done", "failed"}
    /\ tools # {}
    /\ disc_pc \in {"idle", "done"}
    /\ chan = "closed"
    /\ listener_pc \in {"returned", "failed"}
    /\ srv_pc = "closed"
    /\ reconnects' = reconnects + 1
    /\ websocket' = TRUE
    /\ conn_pc' = "await_tools"
    /\ disc_pc' = "idle"
    /\ chan' = "open"
    /\ to_server' = <<>>
    /\ to_client' = <<>>
    /\ active_connections' = active_connections \cup {SessionId + 1}
    /\ srv_pc' = "advertise"
    /\ srv_cur' = RequestFrame(NoneId, "", "")
    /\ srv_read' = <<>>
    /\ srv_sent' = <<>>
    /\ srv_completed' = {}
    /\ srv_discarded' = 0
    /\ UNCHANGED <<connected, tools, request_callbacks, listener_pc, listener_exc, dropped>>
    /\ UNCHANGED <<callVars, strays, raws, handled, registryVars, sideVars>>

\* connect() is called again on a client object that is connected, without a
\* disconnect() in between: there is no guard, so a new connection replaces
\* the one in self.websocket and, once its tools_list has arrived, a second
\* _message_listener task is created (line 63). The task of the replaced
\* connection stays suspended in recv() on that connection, which nothing
\* closes. Taken here only when the replaced connection is idle, so that the
\* endpoint serving it has nothing more to send.
ClientConnectAgain ==
    /\ reconnects < MaxReconnects
    /\ conn_pc = "done"
    /\ connected /\ websocket
    /\ disc_pc = "idle"
    /\ chan = "open"
    /\ listener_pc = "recv"
    /\ old_listener = "none"
    /\ srv_pc = "recv" /\ to_server = <<>> /\ to_client = <<>>
    /\ reconnects' = reconnects + 1
    /\ conn_pc' = "await_tools"
    /\ old_listener' = "recv"
    /\ listener_pc' = "none"
    /\ active_connections' = active_connections \cup {SessionId + 1}
    /\ srv_pc' = "advertise"
    /\ srv_cur' = RequestFrame(NoneId, "", "")
    /\ srv_read' = <<>>
    /\ srv_sent' = <<>>
    /\ srv_completed' = {}
    /\ srv_discarded' = 0
    /\ UNCHANGED <<connected, websocket, tools, request_callbacks, disc_pc, listener_exc, dropped>>
    /\ UNCHANGED <<callVars, chanVars, handled, registryVars, envelope, shot>>

\* the replaced connection is closed by its peer or by the network: the task
\* suspended on it gets ConnectionClosed (lines 98-100), resets the connected
\* flag of the object and ends
OldListenerWake ==
    /\ old_listener = "recv"
    /\ old_listener' = "failed"
    /\ connected' = FALSE
    /\ UNCHANGED <<websocket, tools, request_callbacks, conn_pc, disc_pc, listener_pc, listener_exc, dropped>>
    /\ UNCHANGED <<callVars, chanVars, serverVars, reconnects, handled, registryVars, envelope, shot>>

(* ------------------ WindsurfMCPClient.disconnect ---------------------- *)
\* "if self.websocket: await self.websocket.close()": the close handshake starts
DisconnectStart ==
    /\ conn_pc \in {"done", "failed"}
    /\ disc_pc = "idle"
    /\ websocket
    /\ disc_pc' = "closing"
    /\ chan' = IF chan = "open" THEN "closing" ELSE chan
    /\ UNCHANGED <<connected, websocket, tools, request_callbacks, conn_pc, listener_pc, listener_exc, dropped>>
    /\ UNCHANGED <<callVars, to_server, to_client, strays, raws, serverVars>>
    /\ UNCHANGED apiVars

\* close() has returned: self.websocket = None; self.connected = False
DisconnectFinish ==
    /\ disc_pc = "closing"
    /\ disc_pc' = "done"
    /\ websocket' = FALSE
    /\ connected' = FALSE
    /\ chan' = "closed"
    /\ UNCHANGED <<tools, request_callbacks, conn_pc, listener_pc, listener_exc, dropped>>
    /\ UNCHANGED <<callVars, to_server, to_client, strays, raws, serverVars>>
    /\ UNCHANGED apiVars

(* --------------- WindsurfMCPClient._message_listener ------------------ *)
\* a callback whose completion of an already cancelled future goes through
CallbackOverwrites(fut) == FALSE

\* response_callback(response_data) of call c (closure of call_tool):
\* Future.set_result / set_exception raise InvalidStateError when the future is
\* already done (here: cancelled by wait_for)
CallbackRaises(fut) == fut.state # "pending"

\* the future after response_callback ran without raising
CallbackSet(frame) ==
    IF frame.key = "error"
    THEN [state |-> "exception", val |-> frame.val]
    ELSE [state |-> "result", val |-> frame.val]

\* a listener that hands a response to the oldest entry of the table
LookupKeyOldest(frame, table) ==
    IF DOMAIN table = {} THEN frame.request_id
    ELSE CHOOSE k \in DOMAIN table : \A j \in DOMAIN table : k <= j

\* the key looked up in the table: response_data.get("request_id")
LookupKey(frame, table) == frame.request_id

\* TRUE when the loop body pops an entry for this frame
Matches(frame, table) ==
    frame.type = "tool_response" /\ LookupKey(frame, table) \in DOMAIN table

\* a listener that pops the entry without testing for the key: KeyError
ListenerDropKeyError(frame) ==
    /\ listener_pc' = "failed"
    /\ listener_exc' = IF frame.type = "tool_response" THEN "KeyError" ELSE listener_exc
    /\ connected' = FALSE
    /\ UNCHANGED <<request_callbacks, future, dropped>>

\* a frame that is no tool_response, or whose request_id is no key of the table:
\* nothing is done with it and the loop goes on
ListenerDrop(frame) ==
    /\ listener_pc' = "top"
    /\ dropped' = IF frame.type = "tool_response"
                  THEN dropped \cup {[request_id |-> frame.request_id,
                                      pending |-> DOMAIN request_callbacks]}
                  ELSE dropped
    /\ UNCHANGED <<request_callbacks, future, listener_exc, connected>>

\* "except Exception" (lines 102-104): the task ends
ListenerFail(exc) ==
    /\ listener_pc' = "failed"
    /\ listener_exc' = exc
    /\ connected' = FALSE

\* one run of the loop body on a received frame (lines 85-96), with the
\* except clause that ends the task when the body raises
ListenerHandle(frame) ==
    IF frame.type = "malformed"
    THEN /\ ListenerFail("JSONDecodeError")
         /\ UNCHANGED <<request_callbacks, future, dropped>>
    ELSE IF Matches(frame, request_callbacks)
    THEN LET k == LookupKey(frame, request_callbacks)
             c == request_callbacks[k] IN
         /\ request_callbacks' = Pop(request_callbacks, k)
         /\ UNCHANGED dropped
         /\ IF CallbackRaises(future[c])
            THEN /\ ListenerFail("InvalidStateError")
                 /\ UNCHANGED future
            ELSE /\ future' = [future EXCEPT ![c] = CallbackSet(frame)]
                 /\ listener_pc' = "top"
                 /\ UNCHANGED <<listener_exc, connected>>
    ELSE ListenerDrop(frame)

\* the task is at "while self.websocket and not self.websocket.closed"
ListenerLoop ==
    /\ listener_pc = "top"
    /\ IF ~websocket \/ chan = "closed"
       THEN \* the loop ends without an exception: connected is not touched
            /\ listener_pc' = "returned"
            /\ UNCHANGED <<request_callbacks, future, listener_exc, connected, to_client, dropped>>
       ELSE IF to_client # <<>>
       THEN /\ to_client' = Tail(to_client)
            /\ ListenerHandle(Head(to_client))
       ELSE \* recv() suspends
            /\ listener_pc' = "recv"
            /\ UNCHANGED <<request_callbacks, future, listener_exc, connected, to_client, dropped>>
    /\ UNCHANGED <<websocket, tools, conn_pc, disc_pc>>
    /\ UNCHANGED <<call_pc, call_args, call_rid, outcome, next_id>>
    /\ UNCHANGED <<chan, to_server, strays, raws, serverVars>>
    /\ UNCHANGED apiVars

\* the task is suspended in "await self.websocket.recv()"
ListenerWake ==
    /\ listener_pc = "recv"
    /\ IF to_client # <<>>
       THEN /\ to_client' = Tail(to_client)
            /\ ListenerHandle(Head(to_client))
       ELSE \* recv() raises ConnectionClosed
            /\ chan # "open"
            /\ ListenerFail("ConnectionClosed")
            /\ UNCHANGED <<request_callbacks, future, to_client, dropped>>
    /\ UNCHANGED <<websocket, tools, conn_pc, disc_pc>>
    /\ UNCHANGED <<call_pc, call_args, call_rid, outcome, next_id>>
    /\ UNCHANGED <<chan, to_server, strays, raws, serverVars>>
    /\ UNCHANGED apiVars

(* ------------------- WindsurfMCPClient.call_tool ---------------------- *)
\* a call_tool that uses one fixed request id
NewRequestIdFixed(n) == 1

\* str(uuid.uuid4()) (line 163): the n-th id drawn; uuid4 values are taken
\* to be pairwise different
NewRequestId(n) == n

\* a call_tool that does not look the tool up
ToolKnownAlways(tool, cached) == TRUE

\* get_tool_by_name(tool_name) finds the tool in self.tools (lines 158-159)
ToolKnown(tool, cached) == tool \in cached

\* lines 154-189, which run without yielding to the event loop: the two checks,
\* uuid4, the future, the table entry, and websocket.send, which writes the frame
\* or, unless the connection is open, raises ConnectionClosed out of call_tool.
\* Invocations are numbered in the order in which they are made.
CallStart(c, tool, params) ==
    /\ call_pc[c] = "idle"
    /\ \A d \in Calls : d < c => call_pc[d] # "idle"
    /\ IF ~connected \/ ~websocket
       THEN /\ outcome' = [outcome EXCEPT ![c] = [kind |-> "ConnectionError", val |-> ""]]
            /\ call_pc' = [call_pc EXCEPT ![c] = "done"]
            /\ UNCHANGED <<request_callbacks, call_args, call_rid, next_id, to_server>>
       ELSE IF ~ToolKnown(tool, tools)
       THEN /\ outcome' = [outcome EXCEPT ![c] = [kind |-> "ValueError", val |-> ""]]
            /\ call_pc' = [call_pc EXCEPT ![c] = "done"]
            /\ UNCHANGED <<request_callbacks, call_args, call_rid, next_id, to_server>>
       ELSE /\ call_args' = [call_args EXCEPT ![c] = [tool_name |-> tool, parameters |-> params]]
            /\ call_rid' = [call_rid EXCEPT ![c] = NewRequestId(next_id)]
            /\ next_id' = next_id + 1
            /\ request_callbacks' = Put(request_callbacks, NewRequestId(next_id), c)
            /\ IF chan = "open"
               THEN /\ to_server' = Append(to_server,
                                           RequestFrame(NewRequestId(next_id), tool, params))
                    /\ call_pc' = [call_pc EXCEPT ![c] = "waiting"]
                    /\ UNCHANGED outcome
               ELSE /\ outcome' = [outcome EXCEPT ![c] = [kind |-> "ConnectionClosed", val |-> ""]]
                    /\ call_pc' = [call_pc EXCEPT ![c] = "done"]
                    /\ UNCHANGED to_server
    /\ UNCHANGED <<connected, websocket, tools, conn_pc, disc_pc, listener_pc, listener_exc, dropped>>
    /\ UNCHANGED <<future, chan, to_client, strays, raws, serverVars>>
    /\ UNCHANGED apiVars

\* line 193-195: wait_for returns the result of the future, or raises its exception
CallReturn(c) ==
    /\ call_pc[c] = "waiting"
    /\ future[c].state \in {"result", "exception"}
    /\ outcome' = [outcome EXCEPT ![c] =
           [kind |-> IF future[c].state = "result" THEN "result" ELSE "error",
            val |-> future[c].val]]
    /\ call_pc' = [call_pc EXCEPT ![c] = "done"]
    /\ UNCHANGED <<clientVars, call_args, call_rid, future, next_id, chanVars, serverVars>>
    /\ UNCHANGED apiVars

\* a call_tool that awaits response_future without a deadline
TimeoutNever(c) == FALSE /\ UNCHANGED vars

\* line 193: the 30 s timer of wait_for fires while the future is pending:
\* wait_for cancels the future and waits for the cancellation to be delivered
TimeoutFire(c) ==
    /\ call_pc[c] = "waiting"
    /\ future[c].state = "pending"
    /\ future' = [future EXCEPT ![c] = [state |-> "cancelled", val |-> ""]]
    /\ call_pc' = [call_pc EXCEPT ![c] = "cancelling"]
    /\ UNCHANGED <<clientVars, call_args, call_rid, outcome, next_id, chanVars, serverVars>>
    /\ UNCHANGED apiVars

\* a call_tool whose except clause forgets to remove the entry
TimeoutRaiseNoPop(c) ==
    /\ call_pc[c] = "cancelling"
    /\ outcome' = [outcome EXCEPT ![c] = [kind |-> "TimeoutError", val |-> ""]]
    /\ call_pc' = [call_pc EXCEPT ![c] = "done"]
    /\ UNCHANGED <<clientVars, call_args, call_rid, future, next_id, chanVars, serverVars>>
    /\ UNCHANGED apiVars

\* lines 197-200: asyncio.TimeoutError is caught, the entry popped, TimeoutError raised
TimeoutRaise(c) ==
    /\ call_pc[c] = "cancelling"
    /\ request_callbacks' = Pop(request_callbacks, call_rid[c])
    /\ outcome' = [outcome EXCEPT ![c] = [kind |-> "TimeoutError", val |-> ""]]
    /\ call_pc' = [call_pc EXCEPT ![c] = "done"]
    /\ UNCHANGED <<connected, websocket, tools, conn_pc, disc_pc, listener_pc, listener_exc, dropped>>
    /\ UNCHANGED <<call_args, call_rid, future, next_id, chanVars, serverVars>>
    /\ UNCHANGED apiVars

(* --------------------- main.websocket_endpoint ------------------------ *)
\* an endpoint that logs a failed execution and sends nothing
ResponseForSilentFailure(req) ==
    LET r == ExecuteTool(RegisteredTools, req.tool_name, req.parameters) IN
    IF r.raised THEN <<>> ELSE <<ResponseFrame(req.request_id, "result", r.val)>>

\* the frames the endpoint sends for an executed request (lines 154-174)
ResponseFor(req) ==
    LET r == ExecuteTool(RegisteredTools, req.tool_name, req.parameters) IN
    IF r.raised
    THEN <<ResponseFrame(req.request_id, "error", "Error executing tool: " \o r.val)>>
    ELSE <<ResponseFrame(req.request_id, "result", r.val)>>

\* an endpoint that starts reading requests without advertising its tools
ServerAdvertiseSkipped ==
    /\ srv_pc = "advertise"
    /\ srv_pc' = "recv"
    /\ UNCHANGED <<clientVars, callVars, chanVars, apiVars>>
    /\ UNCHANGED <<active_connections, srv_cur, srv_read, srv_sent, srv_completed, srv_discarded>>

\* lines 119-126: send_json of the tools_list. On a connection that is already
\* lost the send raises; whether the raised exception is the WebSocketDisconnect
\* that the outer handler catches depends on the ASGI stack.
ServerAdvertise ==
    /\ srv_pc = "advertise"
    /\ IF chan = "open"
       THEN /\ to_client' = Append(to_client, ToolsListFrame)
            /\ srv_sent' = Append(srv_sent, ToolsListFrame)
            /\ srv_pc' = "recv"
            /\ UNCHANGED active_connections
       ELSE /\ srv_pc' = "closed"
            /\ \E caught \in BOOLEAN :
                 active_connections' = IF caught THEN active_connections \ {SessionId}
                                       ELSE active_connections
            /\ UNCHANGED <<to_client, srv_sent>>
    /\ UNCHANGED <<clientVars, callVars, chan, to_server, strays, raws>>
    /\ UNCHANGED <<srv_cur, srv_read, srv_completed, srv_discarded>>
    /\ UNCHANGED apiVars

\* an endpoint that runs each execution as a task of its own and keeps reading
ServerReadingConcurrently == srv_pc \in {"recv", "executing"}

\* the endpoint is at "data = await websocket.receive_text()" (line 130): it gets
\* there after accepting and after the body of the previous iteration has finished
ServerReading == srv_pc = "recv"

\* an endpoint that gives up the session on an undecodable frame
AfterDecodeErrorStop == "closed"

\* where the endpoint continues after "except json.JSONDecodeError" (lines
\* 176-177): the clause is inside the while loop, so at receive_text again
AfterDecodeError == "recv"

\* an endpoint that executes a request whatever its tool_name
ToolNamedAlways(m) == TRUE

\* "if not tool_name" (line 141) does not hold for the request
ToolNamed(m) == m.tool_name # ""

\* lines 128-151: receive_text returns a frame; it is decoded and dispatched
ServerRecv ==
    /\ ServerReading
    /\ to_server # <<>>
    /\ to_server' = Tail(to_server)
    /\ LET m == Head(to_server) IN
       IF m.type = "binary"
       THEN \* receive_text (line 130, outside the inner try) raises KeyError on a
            \* binary message: the exception leaves the endpoint, and it is not
            \* the WebSocketDisconnect of line 181
            /\ srv_pc' = "closed"
            /\ UNCHANGED <<to_client, srv_cur, srv_read, srv_sent, srv_discarded>>
       ELSE IF m.type = "malformed"
       THEN \* json.JSONDecodeError (line 176): logged, next iteration
            /\ srv_discarded' = srv_discarded + 1
            /\ srv_pc' = AfterDecodeError
            /\ UNCHANGED <<to_client, srv_cur, srv_read, srv_sent>>
       ELSE IF m.type # "tool_request"
       THEN \* another frame type: next iteration
            UNCHANGED <<to_client, srv_pc, srv_cur, srv_read, srv_sent, srv_discarded>>
       ELSE IF ~ToolNamed(m)
       THEN /\ IF chan = "open"
               THEN LET f == ResponseFrame(m.request_id, "error", NoToolSpecified) IN
                    /\ to_client' = Append(to_client, f)
                    /\ srv_sent' = Append(srv_sent, f)
               ELSE UNCHANGED <<to_client, srv_sent>>
            /\ UNCHANGED <<srv_pc, srv_cur, srv_read, srv_discarded>>
       ELSE /\ srv_pc' = "executing"
            /\ srv_cur' = m
            /\ srv_read' = Append(srv_read, m.request_id)
            /\ UNCHANGED <<to_client, srv_sent, srv_discarded>>
    /\ UNCHANGED <<clientVars, callVars, chan, strays, raws>>
    /\ UNCHANGED <<active_connections, srv_completed>>
    /\ UNCHANGED apiVars

\* lines 154-174: "await windsurf.execute_tool" completes and the response is sent;
\* on a lost connection every send_json raises and line 178 swallows it
ServerExecDone ==
    /\ srv_pc = "executing"
    /\ srv_pc' = "recv"
    /\ IF chan = "open"
       THEN /\ to_client' = to_client \o ResponseFor(srv_cur)
            /\ srv_sent' = srv_sent \o ResponseFor(srv_cur)
            /\ srv_completed' = srv_completed \cup {srv_cur.request_id}
       ELSE UNCHANGED <<to_client, srv_sent, srv_completed>>
    /\ UNCHANGED <<clientVars, callVars, chan, to_server, strays, raws>>
    /\ UNCHANGED <<active_connections, srv_cur, srv_read, srv_discarded>>
    /\ UNCHANGED apiVars

\* lines 181-183: receive_text raises WebSocketDisconnect
ServerDisconnect ==
    /\ srv_pc = "recv"
    /\ to_server = <<>>
    /\ chan \in {"closing", "closed"}
    /\ srv_pc' = "closed"
    /\ active_connections' = active_connections \ {SessionId}
    /\ UNCHANGED <<clientVars, callVars, chanVars>>
    /\ UNCHANGED <<srv_cur, srv_read, srv_sent, srv_completed, srv_discarded>>
    /\ UNCHANGED apiVars

(* ---------------------------- environment ----------------------------- *)
\* the server process or the network drops the connection
ChannelDrop ==
    /\ chan = "open"
    /\ chan' = "closed"
    /\ UNCHANGED <<clientVars, callVars, to_server, to_client, strays, raws, serverVars>>
    /\ UNCHANGED apiVars

\* frames a peer may send that answer no outstanding request
StrayFrames ==
    {MalformedResponse, ResponseFrame(NoneId, "result", "p1"),
     ResponseFrame(ForeignId + MaxRaw + 1, "result", "p1")}
    \cup {srv_sent[i] : i \in {j \in DOMAIN srv_sent : srv_sent[j].type = "tool_response"}}

\* a frame arrives at the client that the endpoint of main.py would not send
\* now: undecodable, without request_id, with an unknown id, or a duplicate
PeerStray ==
    /\ chan = "open"
    /\ strays < MaxStray
    /\ strays' = strays + 1
    /\ \E f \in StrayFrames : to_client' = Append(to_client, f)
    /\ UNCHANGED <<clientVars, callVars, chan, to_server, raws, serverVars>>
    /\ UNCHANGED apiVars

\* frames written to the endpoint by a client other than call_tool
RawFrames(n) ==
    {MalformedRequest, BinaryFrame, RequestFrame(ForeignId + n, "", "p1"),
     RequestFrame(ForeignId + n, "missing", "p1"), RequestFrame(ForeignId + n, "echo", "p2"),
     RequestFrame(ForeignId + n, "raise_empty", "p1")}

RawSend ==
    /\ chan = "open"
    /\ raws < MaxRaw
    /\ raws' = raws + 1
    /\ \E f \in RawFrames(raws) : to_server' = Append(to_server, f)
    /\ UNCHANGED <<clientVars, callVars, chan, to_client, strays, serverVars>>
    /\ UNCHANGED apiVars

(* ------------------------- tool registration -------------------------- *)
\* tool names, descriptions, parameter schemas and handlers used in registrations
RegNames == {"echo", "web_request"}
RegDescriptions == {"d1", "d2"}
RegSchemas == {"s1"}
RegHandlers == {"h1", "h2"}

\* functions the register_tool decorator of tools.py is applied to: id is the
\* function object, fname its __name__, top whether the def statement binds
\* fname in the globals of the tools module
Funcs ==
    {[id |-> "f1", fname |-> "handler", top |-> TRUE],
     [id |-> "f2", fname |-> "handler", top |-> TRUE],
     [id |-> "f3", fname |-> "other", top |-> FALSE]}

\* WindsurfTool(name, description, parameters, handler)
WindsurfTool(name, description, parameters, handler) ==
    [name |-> name, description |-> description, parameters |-> parameters,
     handler |-> handler]

\* a register_tool that keeps the first registration of a name
RegisterToolKeepFirst(name, description, parameters, handler) ==
    /\ Len(reg_log) < MaxRegs
    /\ integration_tools' =
          IF name \in DOMAIN integration_tools THEN integration_tools
          ELSE Put(integration_tools, name, WindsurfTool(name, description, parameters, handler))
    /\ reg_log' = Append(reg_log, [via |-> "integration",
                                   tool |-> WindsurfTool(name, description, parameters, handler)])
    /\ UNCHANGED <<clientVars, callVars, chanVars, serverVars, reconnects, handled, sideVars>>
    /\ UNCHANGED <<tool_registry, module_globals>>

\* WindsurfIntegration.register_tool: self.tools[name] = WindsurfTool(...)
RegisterTool(name, description, parameters, handler) ==
    /\ Len(reg_log) < MaxRegs
    /\ integration_tools' =
          Put(integration_tools, name, WindsurfTool(name, description, parameters, handler))
    /\ reg_log' = Append(reg_log, [via |-> "integration",
                                   tool |-> WindsurfTool(name, description, parameters, handler)])
    /\ UNCHANGED <<clientVars, callVars, chanVars, serverVars, reconnects, handled, sideVars>>
    /\ UNCHANGED <<tool_registry, module_globals>>

\* WindsurfIntegration.get_tool: self.tools.get(name)
GetTool(registry, name) ==
    IF name \in DOMAIN registry THEN registry[name] ELSE None

\* a function is defined under @register_tool(name, description, parameters):
\* the decorator stores the tool with the function's __name__ as its handler,
\* and the def statement binds the name if it is at the top of the tools module
DecorateTool(name, description, parameters, func) ==
    /\ Len(reg_log) < MaxRegs
    /\ tool_registry' =
          Put(tool_registry, name, WindsurfTool(name, description, parameters, func.fname))
    /\ module_globals' =
          IF func.top THEN Put(module_globals, func.fname, func.id) ELSE module_globals
    /\ reg_log' = Append(reg_log, [via |-> "decorator",
                                   tool |-> WindsurfTool(name, description, parameters, func.id)])
    /\ UNCHANGED <<clientVars, callVars, chanVars, serverVars, reconnects, handled, sideVars>>
    /\ UNCHANGED integration_tools

\* tools.get_tool_handler: [raised, val]
GetToolHandler(registry, globs, name) ==
    IF name \notin DOMAIN registry
    THEN [raised |-> TRUE, val |-> "ValueError"]
    ELSE IF registry[name].handler \notin DOMAIN globs
         THEN [raised |-> TRUE, val |-> "ValueError"]
         ELSE [raised |-> FALSE, val |-> globs[registry[name].handler]]

(* -------------- WindsurfIntegration.handle_request -------------------- *)
\* handle_request is called on the integration object of the running server
HandleRequestCall ==
    /\ \E req \in Requests :
         handled' = [called |-> TRUE, request |-> req,
                     response |-> HandleRequest(RegisteredTools, req)]
    /\ UNCHANGED <<clientVars, callVars, chanVars, serverVars, reconnects, registryVars, sideVars>>

(* --------------------- execute_tool_from_windsurf --------------------- *)
\* everything but the state of the execute_tool_from_windsurf invocation
exceptShot ==
    <<clientVars, callVars, chanVars, serverVars, reconnects, handled, registryVars,
      envelope, old_listener>>

\* the function returns: "return" in the try block or in "except Exception"
\* (lines 305, 308, 319), then the finally clause closes the connection if
\* one was opened (lines 321-325)
ShotReturn(kind, val) ==
    shot' = [shot EXCEPT !.pc = "returned",
                         !.ret = [kind |-> kind, val |-> val],
                         !.conn = IF shot.conn = "none" THEN "none" ELSE "closed_by_us"]

\* execute_tool_from_windsurf(tool_name, params) is called
ShotCall ==
    /\ shot.pc = "idle"
    /\ \E in \in CallInputs :
         shot' = [shot EXCEPT !.pc = "connecting", !.tool_name = in[1], !.parameters = in[2]]
    /\ UNCHANGED exceptShot

\* "await websockets.connect(server_url)" (line 244) succeeds or raises
ShotConnect ==
    /\ shot.pc = "connecting"
    /\ \/ shot' = [shot EXCEPT !.pc = "await_tools", !.conn = "open"]
       \/ ShotReturn("error", "ConnectionRefusedError")
    /\ UNCHANGED exceptShot

\* "await websocket_connection.recv()" (line 248) resumes: with the first
\* frame, or with ConnectionClosed when the connection has ended; lines
\* 249-282 follow without another wait for a frame
ShotRecvTools ==
    /\ shot.pc = "await_tools"
    /\ IF shot.inbox # <<>>
       THEN LET first == Head(shot.inbox) IN
            IF first.type = "malformed"
            THEN ShotReturn("error", "JSONDecodeError")
            ELSE IF first.type # "tools_list"
            THEN ShotReturn("error", "Expected tools_list message")
            ELSE IF shot.tool_name \notin RegisteredTools
            THEN ShotReturn("error", "Tool not found in MCP Server")
            ELSE IF shot.conn # "open"
            THEN \* send (line 281) raises ConnectionClosed
                 ShotReturn("error", "ConnectionClosed")
            ELSE shot' = [shot EXCEPT
                            !.pc = "waiting",
                            !.inbox = Tail(shot.inbox),
                            !.request_id = ShotId,
                            !.sent = <<RequestFrame(ShotId, shot.tool_name, shot.parameters)>>]
       ELSE /\ shot.conn = "lost"
            /\ ShotReturn("error", "ConnectionClosed")
    /\ UNCHANGED exceptShot

\* one turn of the loop of lines 289-312 in which recv() delivers a frame or
\* raises ConnectionClosed within its 5 s
ShotRecv ==
    /\ shot.pc = "waiting"
    /\ shot.elapsed < ShotTimeout
    /\ IF shot.inbox # <<>>
       THEN LET f == Head(shot.inbox) IN
            IF f.type = "malformed"
            THEN ShotReturn("error", "JSONDecodeError")
            ELSE IF f.type = "tool_response" /\ f.request_id = shot.request_id
            THEN IF f.key = "error"
                 THEN ShotReturn("error", f.val)
                 ELSE ShotReturn("result", f.val)
            ELSE shot' = [shot EXCEPT !.inbox = Tail(shot.inbox)]
       ELSE /\ shot.conn = "lost"
            /\ ShotReturn("error", "ConnectionClosed")
    /\ UNCHANGED exceptShot

\* one turn of the loop in which wait_for gives up after 5 s (lines 310-312)
ShotRecvTimeout ==
    /\ shot.pc = "waiting"
    /\ shot.elapsed < ShotTimeout
    /\ shot.inbox = <<>>
    /\ shot.conn = "open"
    /\ shot' = [shot EXCEPT !.elapsed = shot.elapsed + RecvTimeout]
    /\ UNCHANGED exceptShot

\* the loop test fails: "raise Exception(Timeout waiting for response ...)"
\* (line 315), caught at line 317
ShotBudgetOut ==
    /\ shot.pc = "waiting"
    /\ shot.elapsed >= ShotTimeout
    /\ ShotReturn("error", "Timeout waiting for response")
    /\ UNCHANGED exceptShot

\* the frames the peer of the function may send: the advertisement, an
\* undecodable frame, responses to the function's request, a response to
\* another request
ShotPeerFrames ==
    {ToolsListFrame, MalformedResponse,
     ResponseFrame(ShotId, "result", "r"), ResponseFrame(ShotId, "error", "e"),
     ResponseFrame(ForeignId, "result", "other")}

\* the peer sends a frame on the function's connection
ShotPeerSend ==
    /\ shot.conn = "open"
    /\ shot.frames < MaxShotFrames
    /\ \E f \in ShotPeerFrames :
         shot' = [shot EXCEPT !.inbox = Append(shot.inbox, f), !.frames = shot.frames + 1]
    /\ UNCHANGED exceptShot

\* the peer or the network ends the function's connection
ShotPeerClose ==
    /\ shot.conn = "open"
    /\ shot' = [shot EXCEPT !.conn = "lost"]
    /\ UNCHANGED exceptShot

(* ------------- WindsurfRequest round trip and decoding ---------------- *)
\* WindsurfRequest.from_dict(r.to_dict()) for a request object r
RoundTrip ==
    /\ \E r \in Envelopes :
         envelope' = [op |-> "roundtrip", request |-> r, encoded |-> RequestToDict(r),
                      decoded |-> FromDict(RequestToDict(r))]
    /\ UNCHANGED <<clientVars, callVars, chanVars, serverVars, reconnects, handled, registryVars>>
    /\ UNCHANGED <<old_listener, shot>>

\* WindsurfRequest.from_dict(d) for a dict that lacks some of the keys
DecodeDict ==
    /\ \E d \in PartialDicts :
         envelope' = [op |-> "decode", request |-> NoEnvelope.request, encoded |-> d,
                      decoded |-> FromDict(d)]
    /\ UNCHANGED <<clientVars, callVars, chanVars, serverVars, reconnects, handled, registryVars>>
    /\ UNCHANGED <<old_listener, shot>>

(* ------------------------------- Next ---------------------------------- *)
\* call_tool is invoked, for one of the first n invocations
CallStartUpTo(n) ==
    \E c \in Calls, in \in CallInputs : c <= n /\ CallStart(c, in[1], in[2])

\* connect, disconnect, the listener task, the endpoint, and the network
Session ==
    \/ ClientConnect
    \/ ClientConnectFail
    \/ ClientRecvTools
    \/ DisconnectStart
    \/ DisconnectFinish
    \/ ListenerLoop
    \/ ListenerWake
    \/ ServerAdvertise
    \/ ServerRecv
    \/ ServerExecDone
    \/ ServerDisconnect
    \/ ChannelDrop

\* the call_tool invocations, up to n of them
CallTool(n) ==
    \/ CallStartUpTo(n)
    \/ \E c \in Calls : CallReturn(c)
    \/ \E c \in Calls : TimeoutFire(c)
    \/ \E c \in Calls : TimeoutRaise(c)

\* the client object connected to the endpoint of main.py
Next == Session \/ CallTool(MaxCalls)

Spec == Init /\ [][Next]_vars

\* the client object connected to a peer that also sends frames of its own
PeerNext == Session \/ CallTool(MaxPeerCalls) \/ PeerStray

PeerSpec == Init /\ [][PeerNext]_vars

\* the endpoint of main.py serving a client that writes its frames itself
ServerNext == Session \/ RawSend \/ HandleRequestCall

ServerSpec == Init /\ [][ServerNext]_vars

\* the client object used for one connection after another
ReconnectNext == Session \/ CallTool(MaxLiveCalls) \/ ClientReconnect

ReconnectSpec == Init /\ [][ReconnectNext]_vars

\* the client object on which connect() is called again while it is connected
DoubleConnectNext ==
    Session \/ CallTool(MaxLiveCalls) \/ ClientConnectAgain \/ OldListenerWake

DoubleConnectSpec == Init /\ [][DoubleConnectNext]_vars

\* one execute_tool_from_windsurf invocation and its peer
ShotNext ==
    \/ ShotCall
    \/ ShotConnect
    \/ ShotRecvTools
    \/ ShotRecv
    \/ ShotRecvTimeout
    \/ ShotBudgetOut
    \/ ShotPeerSend
    \/ ShotPeerClose

\* The event loop resumes the function whenever what it awaits is there: the
\* connection attempt ends, a frame or the end of the connection is delivered
\* to recv(), and wait_for's 5 s timers expire. Nothing is assumed of the peer.
ShotFairness ==
    /\ WF_vars(ShotConnect)
    /\ WF_vars(ShotRecvTools)
    /\ WF_vars(ShotRecv)
    /\ WF_vars(ShotRecvTimeout)
    /\ WF_vars(ShotBudgetOut)

ShotSpec == Init /\ [][ShotNext]_vars /\ ShotFairness

\* an integration object and the registry of tools.py being populated
RegistryNext ==
    \/ \E n \in RegNames, d \in RegDescriptions, q \in RegSchemas, h \in RegHandlers :
          RegisterTool(n, d, q, h)
    \/ \E n \in RegNames, d \in RegDescriptions, q \in RegSchemas, f \in Funcs :
          DecorateTool(n, d, q, f)

RegistrySpec == Init /\ [][RegistryNext]_vars

\* request envelopes being encoded and decoded
CodecNext == RoundTrip \/ DecodeDict

CodecSpec == Init /\ [][CodecNext]_vars

\* The event loop runs every task that is ready and every timer that is due:
\* a resolved future, an expired wait_for and a delivered
\* cancellation are eventually processed. Nothing is assumed of the server,
\* of the network or of the listener.
Fairness ==
    \A c \in Calls :
        /\ WF_vars(CallReturn(c))
        /\ WF_vars(TimeoutFire(c))
        /\ WF_vars(TimeoutRaise(c))

LiveNext == Session \/ CallTool(MaxLiveCalls)

FairSpec == Init /\ [][LiveNext]_vars /\ Fairness

TypeOK ==
    /\ connected \in BOOLEAN
    /\ websocket \in BOOLEAN
    /\ listener_pc \in {"none", "top", "recv", "returned", "failed"}
    /\ old_listener \in {"none", "recv", "failed"}
    /\ \A c \in Calls : call_pc[c] \in {"idle", "waiting", "cancelling", "done"}
    /\ chan \in {"none", "open", "closing", "closed"}
    /\ srv_pc \in {"idle", "advertise", "recv", "executing", "closed"}

(* ======================= properties of the code ======================= *)

\* C1: a call that completes with a result returns the value the server
\* computed for that call's own tool_name and parameters, whatever other calls
\* are outstanding and in whatever order calls time out and responses arrive;
\* a call of the echo tool returns exactly the caller's parameters.
C1_OwnResult ==
    \A c \in Calls :
        outcome[c].kind = "result" =>
            /\ outcome[c].val = HandlerResult(call_args[c].tool_name, call_args[c].parameters)
            /\ call_args[c].tool_name = "echo" => outcome[c].val = call_args[c].parameters

\* two calls of one session have returned different results, each its own
C1_Witness ==
    \E c, d \in Calls :
        /\ outcome[c].kind = "result" /\ outcome[d].kind = "result"
        /\ call_args[c].tool_name = "echo"
        /\ outcome[c].val # outcome[d].val

\* C2: every call_tool invocation eventually returns to its caller (a result,
\* an error or TimeoutError), whatever the server, the network and the
\* listener do.
C2_EveryCallReturns ==
    \A c \in Calls :
        (call_pc[c] # "idle") ~> (call_pc[c] = "done" /\ outcome[c].kind # "none")

\* a call has returned TimeoutError after the connection was lost and the
\* listener had ended
C2_Witness ==
    \E c \in Calls :
        /\ call_pc[c] = "done" /\ outcome[c].kind = "TimeoutError"
        /\ chan = "closed"
        /\ listener_pc \in {"failed", "returned"}

\* C3 (as claimed): once the client has seen the channel close (the listener
\* got ConnectionClosed, or disconnect() has finished), no call is left waiting:
\* the slot of every outstanding call was resolved at that point and its entry
\* is out of the correlation table.
C3_ClosedResolvesAll ==
    (listener_exc = "ConnectionClosed" \/ disc_pc = "done") =>
        \A c \in Calls :
            call_pc[c] = "waiting" =>
                /\ future[c].state # "pending"
                /\ call_rid[c] \notin DOMAIN request_callbacks

\* the slot of call c and what its caller observed agree
OutcomeIsSlot(c) ==
    \/ /\ outcome[c].kind = "result"
       /\ future[c] = [state |-> "result", val |-> outcome[c].val]
    \/ /\ outcome[c].kind = "error"
       /\ future[c] = [state |-> "exception", val |-> outcome[c].val]
    \/ /\ outcome[c].kind = "TimeoutError"
       /\ future[c].state = "cancelled"

\* C4: a call whose request was sent ends with exactly one outcome, in every
\* interleaving of the listener and the timeout: either the response (the
\* slot holds it and the caller got it) or the timeout (the slot was cancelled
\* and the caller got TimeoutError); never a response in the slot of a call
\* that timed out, and never a finished call without an outcome.
C4_ExactlyOneOutcome ==
    \A c \in Calls :
        /\ (call_pc[c] = "done" /\ call_rid[c] # NoneId /\ outcome[c].kind # "ConnectionClosed")
              => OutcomeIsSlot(c)
        /\ call_pc[c] = "done" <=> outcome[c].kind # "none"

\* the response of a call arrived while its timeout was being processed, and
\* the caller got the timeout
C4_Witness ==
    \E c \in Calls :
        /\ outcome[c].kind = "TimeoutError"
        /\ listener_exc = "InvalidStateError"
        /\ call_rid[c] \notin DOMAIN request_callbacks

\* a call has timed out
TimedOut(c) ==
    call_pc[c] = "cancelling" \/ (call_pc[c] = "done" /\ outcome[c].kind = "TimeoutError")

\* C5 (as claimed): after a call has timed out the receive loop keeps running
\* as long as the client holds an open connection, so the other pending calls
\* can still be resolved.
C5_TimeoutIsolated ==
    ((\E c \in Calls : TimedOut(c)) /\ websocket /\ chan = "open")
        => listener_pc \in {"top", "recv"}

\* C6 (as claimed): every entry that call_tool adds to the correlation table
\* is eventually removed from it, on every path out of call_tool.
C6_NoLeak ==
    \A c \in Calls :
        (call_rid[c] \in DOMAIN request_callbacks) ~> (call_rid[c] \notin DOMAIN request_callbacks)

\* number of tool_response frames sent with this request id
Responses(rid) ==
    Cardinality({i \in DOMAIN srv_sent :
                    srv_sent[i].type = "tool_response" /\ srv_sent[i].request_id = rid})

\* C7: for every tool_request with a tool_name read on a session, no response
\* is sent while its handler executes, exactly one response with its
\* request_id has been sent once the invocation has completed on the open
\* session, and never two.
C7_ExactlyOneResponse ==
    \A i \in DOMAIN srv_read :
        LET rid == srv_read[i] IN
        /\ Responses(rid) <= 1
        /\ rid \in srv_completed => Responses(rid) = 1
        /\ (srv_pc = "executing" /\ srv_cur.request_id = rid) => Responses(rid) = 0

\* a failed and a successful invocation have both been answered
C7_Witness ==
    \E i, j \in DOMAIN srv_sent :
        /\ srv_sent[i].type = "tool_response" /\ srv_sent[i].key = "error"
        /\ srv_sent[i].request_id \in srv_completed
        /\ srv_sent[j].type = "tool_response" /\ srv_sent[j].key = "result"
        /\ srv_sent[j].request_id \in srv_completed

Arriving == IF to_client = <<>> THEN {} ELSE {Head(to_client)}

\* the listener takes the tool_response frame f off the channel in this step
ListenerReads(f) ==
    /\ listener_pc \in {"top", "recv"}
    /\ to_client # <<>>
    /\ Head(to_client) = f
    /\ f.type = "tool_response"
    /\ to_client' = Tail(to_client)

\* the step changes nothing of the client but the listener's position
ClientUntouched ==
    /\ listener_pc' = "top"
    /\ UNCHANGED <<connected, websocket, tools, request_callbacks, listener_exc>>
    /\ UNCHANGED <<call_pc, call_rid, future, outcome>>

C10_UnmatchedDropped ==
    [][\A f \in Arriving :
          (ListenerReads(f) /\ f.request_id \notin DOMAIN request_callbacks)
              => ClientUntouched
      ]_vars

\* a tool_response that matched no entry was dropped while a request was
\* pending, and that request is still pending and its listener still running
C10_Witness ==
    \E c \in Calls :
        /\ call_pc[c] = "waiting" /\ future[c].state = "pending"
        /\ call_rid[c] \in DOMAIN request_callbacks
        /\ \E d \in dropped : call_rid[c] \in d.pending
        /\ listener_pc \in {"top", "recv"}

\* C11: within one client session the request ids of the calls are pairwise
\* different, every key of the correlation table is the id of the call its
\* entry belongs to, and an outstanding call keeps its own entry: registering
\* a call never overwrites the entry of another one.
C11_UniqueIds ==
    /\ \A c, d \in Calls :
          (c # d /\ call_rid[c] # NoneId /\ call_rid[d] # NoneId) => call_rid[c] # call_rid[d]
    /\ \A k \in DOMAIN request_callbacks : call_rid[request_callbacks[k]] = k
    /\ \A c \in Calls :
          (call_pc[c] = "waiting" /\ future[c].state = "pending")
              => (call_rid[c] \in DOMAIN request_callbacks /\ request_callbacks[call_rid[c]] = c)

\* two calls are outstanding at the same time, each with its own entry
C11_Witness ==
    \E c, d \in Calls :
        /\ c # d
        /\ call_pc[c] = "waiting" /\ call_pc[d] = "waiting"
        /\ {call_rid[c], call_rid[d]} \subseteq DOMAIN request_callbacks
        /\ call_rid[c] # call_rid[d]

\* positions in srv_sent of the tools_list frames
Advertisements == {i \in DOMAIN srv_sent : srv_sent[i].type = "tools_list"}

\* C12: on a server session the first frame sent is the tools_list; no frame
\* of the session is read, and so no tool_request is executed or answered,
\* before it was sent; and it is sent at most once.
C12_AdvertisedFirstOnce ==
    /\ srv_sent # <<>> => srv_sent[1].type = "tools_list"
    /\ Cardinality(Advertisements) <= 1
    /\ (srv_pc \in {"recv", "executing"} \/ srv_read # <<>> \/ srv_discarded > 0)
          => Advertisements = {1}

\* a session has advertised its tools and then answered a request
C12_Witness ==
    /\ Len(srv_sent) >= 2
    /\ srv_sent[1].type = "tools_list"
    /\ srv_sent[2].type = "tool_response"
    /\ srv_read # <<>>

\* the frame the endpoint reads next, if any
ArrivingAtServer == IF to_server = <<>> THEN {} ELSE {Head(to_server)}

\* the endpoint takes the frame m off the channel in this step
ServerReads(m) ==
    /\ srv_pc = "recv"
    /\ to_server # <<>>
    /\ Head(to_server) = m
    /\ to_server' = Tail(to_server)

\* a tool_request without tool_name gets, at once, one response with its
\* request_id and the error msg; nothing is executed for it and the loop goes
\* on; handle_request answers such a request with the same failure
NoToolAnswered(msg) ==
    /\ \A m \in ArrivingAtServer :
          (ServerReads(m) /\ m.type = "tool_request" /\ m.tool_name = "" /\ chan = "open") =>
              /\ srv_sent' = Append(srv_sent, ResponseFrame(m.request_id, "error", msg))
              /\ to_client' = Append(to_client, ResponseFrame(m.request_id, "error", msg))
              /\ srv_pc' = "recv"
              /\ UNCHANGED <<srv_read, srv_cur, srv_completed, active_connections>>
    /\ (handled'.called /\ handled'.request.tool_name = "") =>
          /\ handled'.response.request_id = handled'.request.request_id
          /\ handled'.response.error = msg
          /\ handled'.response.result = None

\* C13 (as claimed): the error of the response to a tool_request without
\* tool_name is "no tool specified".
C13_NoToolLowercase == [][NoToolAnswered("no tool specified")]_vars

\* C13 (amended): a tool_request without tool_name is answered at once with
\* one response frame that carries its request_id and the error
\* "No tool specified"; no handler is invoked and the receive loop goes on.
C13_NoToolSpecified == [][NoToolAnswered("No tool specified")]_vars

\* a request without tool_name was answered by the endpoint, which is
\* reading again, and one was answered by handle_request
C13_Witness ==
    /\ \E i \in DOMAIN srv_sent :
          srv_sent[i].type = "tool_response" /\ srv_sent[i].val = "No tool specified"
    /\ srv_pc = "recv"
    /\ srv_read = <<>>
    /\ handled.called /\ handled.request.tool_name = ""

\* the request names a tool that is not registered
Unregistered(name) == name # "" /\ name \notin RegisteredTools

\* C14: a tool_request that names an unregistered tool runs no handler (the
\* failure is the lookup's "Tool not found") and is answered with one frame
\* for its request_id that has the error key and no result key; the response
\* of handle_request to such a request has an error, and no result, too.
C14_UnregisteredGivesError ==
    [][/\ (srv_pc = "executing" /\ srv_pc' # "executing" /\ chan = "open"
             /\ Unregistered(srv_cur.tool_name)) =>
              /\ Len(srv_sent') = Len(srv_sent) + 1
              /\ LET f == srv_sent'[Len(srv_sent')] IN
                   /\ f.type = "tool_response"
                   /\ f.request_id = srv_cur.request_id
                   /\ f.key = "error"
                   /\ f.val = "Error executing tool: Tool not found"
       /\ (handled'.called /\ Unregistered(handled'.request.tool_name)) =>
              /\ handled'.response.request_id = handled'.request.request_id
              /\ handled'.response.error = "Tool not found"
              /\ "error" \in ToDictKeys(handled'.response)
              /\ "result" \notin ToDictKeys(handled'.response)
      ]_vars

\* requests for an unregistered tool were answered by the endpoint and by
\* handle_request
C14_Witness ==
    /\ \E i \in DOMAIN srv_sent :
          /\ srv_sent[i].type = "tool_response"
          /\ srv_sent[i].val = "Error executing tool: Tool not found"
          /\ srv_sent[i].request_id \in srv_completed
    /\ handled.called /\ Unregistered(handled.request.tool_name)

\* the request names a registered tool whose handler raises on its parameters
HandlerFails(req) ==
    req.tool_name \in RegisteredTools /\ HandlerRaises(req.tool_name, req.parameters)

\* C15 (as claimed): whenever a handler raises, whatever the exception's
\* message, the response is a failure response: handle_request's response has
\* an error, no result and status "error"; the WebSocket loop sends a frame
\* with the error key for the request.
C15_HandlerFailureReported ==
    /\ (handled.called /\ HandlerFails(handled.request)) =>
          /\ Status(handled.response) = "error"
          /\ "error" \in ToDictKeys(handled.response)
          /\ "result" \notin ToDictKeys(handled.response)
    /\ (srv_cur.request_id \in srv_completed /\ HandlerFails(srv_cur)) =>
          \E i \in DOMAIN srv_sent :
              /\ srv_sent[i].type = "tool_response"
              /\ srv_sent[i].request_id = srv_cur.request_id
              /\ srv_sent[i].key = "error"

\* C16: a frame that fails to decode as JSON is discarded and the session goes
\* on: the endpoint is reading again, the session is still in
\* active_connections, nothing was executed or sent for the frame; and on a
\* session that has discarded a frame a tool_request is still dispatched when
\* read and answered when its invocation completes.
C16_MalformedDiscarded ==
    [][/\ \A m \in ArrivingAtServer :
            /\ (ServerReads(m) /\ m.type = "malformed") =>
                  /\ srv_pc' = "recv"
                  /\ SessionId \in active_connections'
                  /\ UNCHANGED <<active_connections, srv_sent, srv_read, srv_cur,
                                 srv_completed, to_client, chan>>
            /\ (ServerReads(m) /\ srv_discarded > 0
                   /\ m.type = "tool_request" /\ m.tool_name # "") =>
                  /\ srv_pc' = "executing"
                  /\ srv_cur' = m
       /\ (srv_discarded > 0 /\ srv_pc = "executing" /\ srv_pc' # "executing" /\ chan = "open") =>
            /\ srv_pc' = "recv"
            /\ Len(srv_sent') = Len(srv_sent) + 1
            /\ srv_sent'[Len(srv_sent')].type = "tool_response"
            /\ srv_sent'[Len(srv_sent')].request_id = srv_cur.request_id
      ]_vars

\* of two frames written to the session the first was discarded as
\* undecodable and the second, a tool_request, was executed and answered
C16_Witness ==
    /\ raws = 2
    /\ srv_discarded = 1
    /\ (ForeignId + 1) \in srv_completed
    /\ \E i \in DOMAIN srv_sent : srv_sent[i].request_id = ForeignId + 1
    /\ SessionId \in active_connections

\* the endpoint invocation of the session is still running
HandlerRunning == srv_pc \in {"advertise", "recv", "executing"}

\* C17 (as claimed): active_connections contains only sessions whose endpoint
\* invocation is still running: whenever the receive loop has ended, for
\* whatever reason, the session's id has been removed.
C17_ActiveOnlyRunning ==
    active_connections \subseteq (IF HandlerRunning THEN {SessionId} ELSE {})

\* the registrations of name n made through "via", as positions in reg_log
RegistrationsOf(via, n) ==
    {i \in DOMAIN reg_log : reg_log[i].via = via /\ reg_log[i].tool.name = n}

\* the last element of a non-empty set of positions
Latest(S) == CHOOSE i \in S : \A j \in S : j <= i

\* C18: after any sequence of registrations, lookup of a registered name
\* returns the descriptor (name, description, parameter schema, handler) that
\* was registered under it (the latest, when a name was registered again); for
\* a name that was not registered execute_tool raises the not-found
\* ValueError, and so does get_tool_handler for a name never decorated.
C18_LookupReturnsRegistered ==
    \A n \in RegNames \cup {"missing"} :
        /\ IF RegistrationsOf("integration", n) = {}
           THEN /\ GetTool(integration_tools, n) = None
                /\ ExecuteTool(DOMAIN integration_tools, n, "p1")
                      = [raised |-> TRUE, val |-> "Tool not found"]
           ELSE GetTool(integration_tools, n)
                  = reg_log[Latest(RegistrationsOf("integration", n))].tool
        /\ RegistrationsOf("decorator", n) = {} =>
              GetToolHandler(tool_registry, module_globals, n)
                  = [raised |-> TRUE, val |-> "ValueError"]

\* one name was registered twice with different descriptors and is looked up
\* as the second, while another name is not registered
C18_Witness ==
    \E n, m \in RegNames :
        /\ Cardinality(RegistrationsOf("integration", n)) = 2
        /\ reg_log[1].tool # reg_log[2].tool
        /\ GetTool(integration_tools, n) = reg_log[2].tool
        /\ m \notin DOMAIN integration_tools
        /\ m \notin DOMAIN tool_registry

\* the client object is in the state in which call_tool accepts requests
Active == connected /\ websocket /\ conn_pc = "done" /\ chan = "open"

\* C19 (as claimed): a client object that has been closed never becomes
\* Active again, whatever connect, call_tool and disconnect calls follow: a
\* later connect() does not bring the object, with its correlation table,
\* back into service.
C19_ClosedTerminal == reconnects > 0 => ~Active

\* call c is made in this step
CallMade(c) == call_pc[c] = "idle" /\ call_pc'[c] # "idle"

\* C20: call_tool for a tool that is not in the cached advertisement fails
\* with the unknown-tool error (ValueError) before anything else happens: a
\* call on a connected client either names a cached tool and gets a request
\* id, or fails with ValueError, and then no frame is sent, no id is drawn and
\* the correlation table is unchanged.
C20_UnknownToolRejected ==
    [][\A c \in Calls :
          /\ (CallMade(c) /\ call_rid'[c] # NoneId) => call_args'[c].tool_name \in tools
          /\ (CallMade(c) /\ connected /\ websocket /\ call_rid'[c] = NoneId) =>
                outcome'[c].kind = "ValueError"
          /\ (CallMade(c) /\ outcome'[c].kind = "ValueError") =>
                /\ call_pc'[c] = "done"
                /\ UNCHANGED <<request_callbacks, to_server, next_id, call_rid, future>>
      ]_vars

\* a call for an unknown tool has failed while another call was outstanding,
\* whose entry is the only one in the table
C20_Witness ==
    \E c, d \in Calls :
        /\ outcome[c].kind = "ValueError" /\ call_rid[c] = NoneId
        /\ call_pc[d] = "waiting"
        /\ DOMAIN request_callbacks = {call_rid[d]}
        /\ next_id = 2


\* C21: encoding a request envelope with to_dict and decoding the dict with
\* from_dict gives an envelope with the same request_id, tool_name and
\* parameters, for every tool name, request id and parameter bundle (empty,
\* flat or nested).
C21_RoundTrip ==
    envelope.op = "roundtrip" =>
        /\ envelope.encoded = RequestToDict(envelope.request)
        /\ envelope.decoded.request_id = envelope.request.request_id
        /\ envelope.decoded.tool_name = envelope.request.tool_name
        /\ envelope.decoded.parameters = envelope.request.parameters

\* a request with a nested bundle, a tool name and an id has made the round trip
C21_Witness ==
    /\ envelope.op = "roundtrip"
    /\ envelope.request = WindsurfRequest("echo", "{a:{b:{c:1}}}", "r2")
    /\ envelope.decoded = envelope.request
    /\ HasKey(envelope.encoded, "parameters")


\* the keys of the data of a tool_response frame the endpoint sent
FrameKeys(frame) ==
    {"request_id"} \cup (IF frame.key \in {"result", "error"} THEN {frame.key} ELSE {})

\* C22: every response envelope the server encodes carries exactly one of the
\* keys result and error, and it marks failure exactly when the error key is
\* present: the dict of WindsurfResponse.to_dict has status "error" exactly
\* then, and a tool_response frame of the WebSocket loop is taken as a failure
\* by its receiver exactly then.
C22_OneOfResultError ==
    /\ handled.called =>
          /\ Cardinality(ToDictKeys(handled.response) \cap {"result", "error"}) = 1
          /\ Status(handled.response) = "error" <=> "error" \in ToDictKeys(handled.response)
    /\ \A i \in DOMAIN srv_sent :
          srv_sent[i].type = "tool_response" =>
              /\ Cardinality(FrameKeys(srv_sent[i]) \cap {"result", "error"}) = 1
              /\ CallbackSet(srv_sent[i]).state = "exception" <=> "error" \in FrameKeys(srv_sent[i])

\* the loop has sent a result frame and an error frame, and handle_request has
\* encoded a failure
C22_Witness ==
    /\ \E i, j \in DOMAIN srv_sent :
          /\ srv_sent[i].type = "tool_response" /\ srv_sent[i].key = "result"
          /\ srv_sent[j].type = "tool_response" /\ srv_sent[j].key = "error"
    /\ handled.called
    /\ ToDictKeys(handled.response) = {"request_id", "status", "error"}


\* the listener hands the tool_response frame f to the entry of call c, whose
\* slot is already completed (resolved, failed or cancelled)
SecondAttempt(c, f) ==
    /\ ListenerReads(f)
    /\ Matches(f, request_callbacks)
    /\ request_callbacks[LookupKey(f, request_callbacks)] = c
    /\ future[c].state # "pending"

\* C23 (as claimed): the result slot of a call is written at most once, and an
\* attempt to complete a slot that is already completed is a no-op, not an
\* error: the slot keeps its value and the listener goes on.
C23_SecondAttemptNoOp ==
    [][\A c \in Calls :
          /\ future[c].state # "pending" => future'[c] = future[c]
          /\ \A f \in Arriving :
                SecondAttempt(c, f) => (listener_exc' = listener_exc /\ listener_pc' = "top")
      ]_vars


\* the listener takes the undecodable frame f off the channel in this step
ListenerReadsUndecodable(f) ==
    /\ listener_pc \in {"top", "recv"}
    /\ to_client # <<>>
    /\ Head(to_client) = f
    /\ f.type = "malformed"
    /\ to_client' = Tail(to_client)

\* C24 (as claimed): a frame the client's receive loop cannot decode as JSON
\* is discarded: the loop keeps running, the session stays connected, and the
\* table and the pending calls are untouched, so that later responses still
\* resolve them.
C24_UndecodableDiscarded ==
    [][\A f \in Arriving : ListenerReadsUndecodable(f) => ClientUntouched]_vars


\* the request frames this step puts on the channel
FramesSent ==
    IF Len(to_server') > Len(to_server)
    THEN {to_server'[i] : i \in (Len(to_server) + 1)..Len(to_server')}
    ELSE {}

\* C25: call_tool registers its entry in the correlation table before it sends
\* the request frame: whenever a request frame with id X is put on the channel
\* the table holds the entry of that call under X, and the response of a call
\* that is still waiting never arrives at a table without the call's entry.
C25_RegisteredBeforeSend ==
    [][/\ \A m \in FramesSent :
             /\ m.request_id \in DOMAIN request_callbacks'
             /\ call_rid'[request_callbacks'[m.request_id]] = m.request_id
             /\ call_pc'[request_callbacks'[m.request_id]] = "waiting"
       /\ \A f \in Arriving, c \in Calls :
             (ListenerReads(f) /\ f.request_id = call_rid[c]
                /\ call_pc[c] = "waiting" /\ future[c].state = "pending")
                 => (f.request_id \in DOMAIN request_callbacks /\ future'[c] = CallbackSet(f))
      ]_vars

\* the request frame of a waiting call is on the channel and the call's entry
\* is in the table
C25_Witness ==
    \E c \in Calls, i \in DOMAIN to_server :
        /\ to_server[i].request_id = call_rid[c]
        /\ call_pc[c] = "waiting"
        /\ call_rid[c] \in DOMAIN request_callbacks
        /\ request_callbacks[call_rid[c]] = c


\* the client object is not connected: it never connected, its connect failed,
\* it was disconnected, or its connection is lost
NotConnected == ~connected \/ ~websocket \/ chan \in {"none", "closed"}

\* C26 (as claimed): call_tool on a client that is not connected fails with
\* ConnectionError, sends no frame and adds no entry to the correlation table;
\* and the connected flag is set only by the step that reads a tools_list frame
\* as the first frame of the connection.
C26_OnlyActiveAccepts ==
    [][/\ \A c \in Calls :
             (CallMade(c) /\ NotConnected) =>
                 /\ outcome'[c].kind = "ConnectionError"
                 /\ UNCHANGED <<request_callbacks, to_server>>
       /\ (~connected /\ connected') =>
             /\ conn_pc = "await_tools" /\ conn_pc' = "done"
             /\ to_client # <<>> /\ Head(to_client).type = "tools_list"
      ]_vars


\* the _message_listener tasks of the client object that have not ended
ListenerTasks ==
    (IF listener_pc \in {"top", "recv"} THEN 1 ELSE 0) + (IF old_listener = "recv" THEN 1 ELSE 0)

\* C27 (as claimed): whatever connect, disconnect and call_tool calls are made
\* on one client object, at most one _message_listener task of that object is
\* alive, reading self.websocket and popping from self.request_callbacks.
C27_SingleListener == ListenerTasks <= 1


\* the tool_requests read on the session whose invocation has not completed
InProgress == {i \in DOMAIN srv_read : srv_read[i] \notin srv_completed}

\* C28: within one server session at most one handler invocation is in
\* progress at any time (it is that of the request read last), and the
\* tool_response frames are sent in the order in which their requests were
\* received (the requests written to a session carry increasing ids and the
\* channel keeps their order, so that is the order of the ids).
C28_OneAtATimeInOrder ==
    /\ chan = "open" =>
          /\ Cardinality(InProgress) <= 1
          /\ \A i \in InProgress :
                i = Len(srv_read) /\ srv_pc = "executing" /\ srv_cur.request_id = srv_read[i]
    /\ \A i, j \in DOMAIN srv_sent :
          (i < j /\ srv_sent[i].type = "tool_response" /\ srv_sent[j].type = "tool_response")
              => srv_sent[i].request_id < srv_sent[j].request_id

\* two requests were read one after the other and both were answered, the
\* second one by a handler, after the first had been answered
C28_Witness ==
    /\ Len(srv_sent) = 3
    /\ srv_sent[2].type = "tool_response" /\ srv_sent[3].type = "tool_response"
    /\ srv_sent[2].request_id = ForeignId /\ srv_sent[3].request_id = ForeignId + 1
    /\ srv_sent[3].request_id \in srv_completed


\* C29 (as claimed): execute_tool_from_windsurf always terminates: once called
\* it returns, on every path, whatever its peer does.
C29_Terminates == (shot.pc = "connecting") ~> (shot.pc = "returned")


\* the function object is defined at the top of the tools module
TopLevel(id) == \E f \in Funcs : f.id = id /\ f.top

\* C30 (as claimed): for every tool name registered with the register_tool
\* decorator (on functions defined in the tools module), get_tool_handler
\* returns the very function that was decorated under that name, the latest
\* one when the name was registered twice, also when two decorated functions
\* have the same function name.
C30_HandlerIsOwn ==
    (\A i \in DOMAIN reg_log : reg_log[i].via = "decorator" => TopLevel(reg_log[i].tool.handler))
        => \A n \in RegNames :
              RegistrationsOf("decorator", n) # {} =>
                  GetToolHandler(tool_registry, module_globals, n)
                      = [raised |-> FALSE,
                         val |-> reg_log[Latest(RegistrationsOf("decorator", n))].tool.handler]

=============================================================================
